---- MODULE Spec2Model ----
(***************************************************************************)
(* Model of H5DataSource (bindings/python/cntk/io/h5reader.py): the        *)
(* minibatch source over an HDF5 data group.  A data group is an ordered   *)
(* collection of named datasets; a dataset is either a fixed-record array  *)
(* (one sample per record) or a sequence array whose record i is a flat    *)
(* 1-d block of blocks[i+1] scalars, to be cut into elements of elm_size   *)
(* scalars each.  Records are indexed from 0 as in the source.             *)
(***************************************************************************)
EXTENDS Integers, Sequences, FiniteSets, TLC

\* ---- bounds of the model ------------------------------------------------
MaxRecords == 2
MaxBlock == 2
MaxElmSize == 2
\* requests range over -MaxNegative .. MaxSamples
MaxNegative == 1
MinSamples == 0 - MaxNegative
MaxSamples == 7
\* number_of_workers ranges over 1 .. MaxWorkers, worker_rank below it
MaxWorkers == 2
\* calls followed by the specification that keeps the history of the calls
MaxCalls == 3
\* num_seq is counted up to MaxIter and stays there: a loop that ends takes at
\* most MaxSamples * MaxRecords iterations, so only a loop that never ends
\* gets that far
MaxIter == MaxSamples * MaxRecords + 1

VARIABLES
    datagroup,             \* self.datagroup: sequence of datasets
    next_idx,              \* self.next_idx: the cursor
    pc,                    \* position inside next_minibatch
    num_samples_in_batch,  \* argument of the running / last call
    start, end,            \* locals of next_minibatch
    sample_count, num_seq, \* locals of next_minibatch
    sweep_end,             \* local of next_minibatch
    strm,                  \* position of the "for name in self.datagroup" loop
    result,                \* local dict result, keyed by stream name
    status,                \* "constructed", "running", "returned", "raised"
    attrs,                 \* which of attrs['shape'], attrs['dtype'] each dataset has
    stream_info_mapping,   \* self.stream_info_mapping: the catalog
    infos,                 \* what stream_infos() returned, if it was the last call
    number_of_workers,     \* argument of the running / last call
    worker_rank,           \* argument of the running / last call
    log                    \* history of the calls completed so far (not program state)

vars == <<datagroup, next_idx, pc, num_samples_in_batch, start, end,
          sample_count, num_seq, sweep_end, strm, result, status,
          attrs, stream_info_mapping, infos, number_of_workers, worker_rank, log>>

\* what next_minibatch never writes apart from its own arguments
frame == <<attrs, stream_info_mapping, infos, number_of_workers, worker_rank>>

\* ---- datasets -----------------------------------------------------------
Max(a, b) == IF a >= b THEN a ELSE b

\* all sequences of exactly n elements of S
RECURSIVE SeqsOfLen(_, _)
SeqsOfLen(S, n) ==
    IF n = 0 THEN {<<>>}
    ELSE {Append(s, x) : s \in SeqsOfLen(S, n - 1), x \in S}

\* a dataset that is not a sequence: dataset.shape[0] = n records of one element
FixedDataset(nm, n) ==
    [name |-> nm, is_seq |-> FALSE, elm_size |-> 1, blocks |-> [i \in 1..n |-> 1]]

\* a sequence dataset: attrs['is_seq'], attrs['shape'] (product elm_size,
\* either a scalar or MaxElmSize scalars), and one variable-length block per
\* record
SeqDatasets(nm, n) ==
    {[name |-> nm, is_seq |-> TRUE, elm_size |-> e, blocks |-> b] :
        e \in {1, MaxElmSize}, b \in SeqsOfLen(0..MaxBlock, n)}

Datasets(nm, n) == {FixedDataset(nm, n)} \cup SeqDatasets(nm, n)

\* data groups of one or two datasets, all with the same number of records
SmallDatagroups ==
    UNION {{<<a>> : a \in Datasets("a", n)} \cup
           {<<a, b>> : a \in Datasets("a", n), b \in Datasets("b", n)} :
           n \in 1..MaxRecords}

\* the data group of the two worked examples: ten records, one sample per
\* record in "fixed", sequence lengths 2,3,4,2,3,2,4,3,2,3 in "seq"
ScenarioDatagroup ==
    << FixedDataset("fixed", 10),
       [name |-> "seq", is_seq |-> TRUE, elm_size |-> 1,
        blocks |-> <<2, 3, 4, 2, 3, 2, 4, 3, 2, 3>>] >>

Datagroups == SmallDatagroups \cup {ScenarioDatagroup}

\* the data groups of the specifications that keep more per call: one
\* dataset, or a fixed dataset followed by any dataset, and the worked example
FewDatagroups ==
    {dg \in SmallDatagroups : Len(dg) = 1 \/ ~dg[1].is_seq} \cup {ScenarioDatagroup}

\* self.num_data_points = dataset.shape[0] of the last dataset enumerated
num_data_points == Len(datagroup[Len(datagroup)].blocks)

\* ---- helpers of the class -----------------------------------------------
\* variant: every record counts as one sample, sequence or not
sample_count_One(dataset, data_idx) == 1

\* sample_count_(dataset, data_idx): floor division of the block size
sample_count_(dataset, data_idx) ==
    IF dataset.is_seq
    THEN dataset.blocks[data_idx + 1] \div dataset.elm_size
    ELSE 1

\* max_seq_len_(idx): mx_len = 0; for each dataset mx_len = max(mx_len, ...)
RECURSIVE MaxLenFrom(_, _, _)
MaxLenFrom(i, mx_len, idx) ==
    IF i > Len(datagroup) THEN mx_len
    ELSE MaxLenFrom(i + 1, Max(mx_len, sample_count_(datagroup[i], idx)), idx)

\* variant: the contributions of the datasets are added up instead of maximised
RECURSIVE SumLenFrom(_, _)
SumLenFrom(i, idx) ==
    IF i > Len(datagroup) THEN 0
    ELSE sample_count_(datagroup[i], idx) + SumLenFrom(i + 1, idx)

max_seq_len_Sum(idx) == SumLenFrom(1, idx)

\* variant: only the first dataset is asked for its sample count
max_seq_len_First(idx) == sample_count_(datagroup[1], idx)

max_seq_len_(idx) == MaxLenFrom(1, 0, idx)

\* Python slice range a:b of record indexes (empty when a >= b)
Slice(a, b) == [i \in 1..(IF b > a THEN b - a ELSE 0) |-> a + i - 1]

\* ---- construction -------------------------------------------------------
EmptyResult == [nm \in {} |-> 0]

\* StreamInformation(name, i, storage_format, dtype, dshape) of dataset number i
\* (enumerate counts from 0); the shape is kept as its number of scalars
StreamInfo(dataset, i) ==
    [name |-> dataset.name, id |-> i - 1, storage_format |-> "dense",
     shape |-> dataset.elm_size]

\* stream_infos after the for loop of lines 70-87 has gone over k datasets
CatalogUpTo(dg, k) ==
    [nm \in {dg[i].name : i \in 1..k} |->
        LET i == CHOOSE j \in 1..k : dg[j].name = nm IN StreamInfo(dg[i], i)]

Catalog(dg) == CatalogUpTo(dg, Len(dg))

\* the attributes a data group carries when every sequence dataset has its
\* shape and dtype and the other datasets have neither
FullAttrs(dg) ==
    [nm \in {dg[i].name : i \in 1..Len(dg)} |->
        LET i == CHOOSE j \in 1..Len(dg) : dg[j].name = nm
        IN [shape |-> dg[i].is_seq, dtype |-> dg[i].is_seq]]

\* stream_infos() has not been called since the last next_minibatch (a
\* catalog is never empty, a data group has at least one dataset)
NoInfos == {}

\* nothing has been called yet
EmptyLog ==
    [calls |-> 0, delivered |-> 0, sweeps |-> 0,
     failed |-> FALSE, overlong |-> FALSE, nonpositive |-> FALSE]

Init ==
    /\ datagroup \in Datagroups
    /\ next_idx = 0
    /\ pc = "idle"
    /\ num_samples_in_batch = 0
    /\ start = 0
    /\ end = 0
    /\ sample_count = 0
    /\ num_seq = 0
    /\ sweep_end = FALSE
    /\ strm = 1
    /\ result = EmptyResult
    /\ status = "constructed"
    /\ attrs = FullAttrs(datagroup)
    /\ stream_info_mapping = Catalog(datagroup)
    /\ infos = NoInfos
    /\ number_of_workers = 1
    /\ worker_rank = 0
    /\ log = EmptyLog

\* ---- __init__, step by step ---------------------------------------------
\* every way the datasets of dg can have or lack attrs['shape'], attrs['dtype']
AttrsOf(dg) ==
    [{dg[i].name : i \in 1..Len(dg)} -> [shape : BOOLEAN, dtype : BOOLEAN]]

\* self.next_idx of an object whose construction has not reached line 92
NoCursor == "unset"

\* before __init__ has run: any data group with any attributes
InitConstruct ==
    /\ datagroup \in Datagroups
    /\ attrs \in AttrsOf(datagroup)
    /\ next_idx = NoCursor
    /\ pc = "init"
    /\ num_samples_in_batch = 0
    /\ start = 0
    /\ end = 0
    /\ sample_count = 0
    /\ num_seq = 0
    /\ sweep_end = FALSE
    /\ strm = 1
    /\ result = EmptyResult
    /\ status = "constructing"
    /\ stream_info_mapping = EmptyResult
    /\ infos = NoInfos
    /\ number_of_workers = 1
    /\ worker_rank = 0
    /\ log = EmptyLog

\* variant: only the shape attribute is looked up
HasSeqMetadata_ShapeOnly(at) == at.shape

\* lines 79-80 read attrs['shape'] (dataset_shape_, line 97) and
\* attrs['dtype']; a missing key raises
HasSeqMetadata(at) == at.shape /\ at.dtype

\* one pass of the for loop of lines 70-87 over dataset number strm
ConstructStream ==
    /\ pc = "init"
    /\ strm <= Len(datagroup)
    /\ LET dataset == datagroup[strm]
       IN IF dataset.is_seq /\ ~HasSeqMetadata(attrs[dataset.name])
          THEN \* the lookup raises: there is no object
               /\ status' = "failed"
               /\ pc' = "dead"
               /\ UNCHANGED <<strm, stream_info_mapping>>
          ELSE /\ stream_info_mapping' =
                     [x \in DOMAIN stream_info_mapping \cup {dataset.name} |->
                         IF x = dataset.name THEN StreamInfo(dataset, strm)
                         ELSE stream_info_mapping[x]]
               /\ strm' = strm + 1
               /\ UNCHANGED <<status, pc>>
    /\ UNCHANGED <<datagroup, next_idx, num_samples_in_batch, start, end,
                   sample_count, num_seq, sweep_end, result, attrs, infos,
                   number_of_workers, worker_rank, log>>

\* lines 88-94
ConstructDone ==
    /\ pc = "init"
    /\ strm > Len(datagroup)
    /\ next_idx' = 0
    /\ status' = "constructed"
    /\ pc' = "idle"
    /\ strm' = 1
    /\ UNCHANGED <<datagroup, num_samples_in_batch, start, end, sample_count,
                   num_seq, sweep_end, result, frame, log>>

NextConstruct == ConstructStream \/ ConstructDone

SpecConstruct == InitConstruct /\ [][NextConstruct]_vars

\* ---- next_minibatch -----------------------------------------------------
\* variant: every worker starts its walk at its own offset from the cursor
CallWith_Sharded(n, workers, rank) ==
    /\ pc = "idle"
    /\ num_samples_in_batch' = n
    /\ number_of_workers' = workers
    /\ worker_rank' = rank
    /\ infos' = NoInfos
    /\ start' = (next_idx + rank) % num_data_points
    /\ end' = (next_idx + rank) % num_data_points
    /\ sample_count' = 0
    /\ num_seq' = 0
    /\ sweep_end' = FALSE
    /\ strm' = 1
    /\ result' = EmptyResult
    /\ status' = "running"
    /\ pc' = "while"
    /\ UNCHANGED <<datagroup, next_idx, attrs, stream_info_mapping, log>>

\* entry with explicit worker arguments: lines 127-136
CallWith(n, workers, rank) ==
    /\ pc = "idle"
    /\ num_samples_in_batch' = n
    /\ number_of_workers' = workers
    /\ worker_rank' = rank
    /\ infos' = NoInfos
    /\ start' = next_idx
    /\ end' = next_idx
    /\ sample_count' = 0
    /\ num_seq' = 0
    /\ sweep_end' = FALSE
    /\ strm' = 1
    /\ result' = EmptyResult
    /\ status' = "running"
    /\ pc' = "while"
    /\ UNCHANGED <<datagroup, next_idx, attrs, stream_info_mapping, log>>

\* entry with the defaults number_of_workers=1, worker_rank=0 of line 127
Call(n) == CallWith(n, 1, 0)

\* variant: the loop goes on while the total has not yet exceeded the request
LoopCond_Le(cnt, n) == cnt <= n

\* the loop test of line 137
LoopCond(cnt, n) == cnt < n

\* variant: the comparison of the break test is reversed
BreakCond_Lt(cnt, n) == cnt < n

\* the break test of line 142
BreakCond(cnt, n) == cnt > n

\* one iteration of the while loop: lines 138-143
LoopStep ==
    /\ pc = "while"
    /\ LoopCond(sample_count, num_samples_in_batch)
    /\ sample_count' = sample_count + max_seq_len_(end)
    /\ num_seq' = IF num_seq < MaxIter THEN num_seq + 1 ELSE num_seq
    /\ end' = (end + 1) % num_data_points
    /\ pc' = IF BreakCond(sample_count', num_samples_in_batch) THEN "advance" ELSE "while"
    /\ UNCHANGED <<datagroup, next_idx, num_samples_in_batch, start, sweep_end,
                   strm, result, status, frame, log>>

\* the loop test fails: fall out of the while loop
LoopExit ==
    /\ pc = "while"
    /\ ~LoopCond(sample_count, num_samples_in_batch)
    /\ pc' = "advance"
    /\ UNCHANGED <<datagroup, next_idx, num_samples_in_batch, start, end,
                   sample_count, num_seq, sweep_end, strm, result, status,
                   frame, log>>

\* variant: the test of the sweep is the wrong way round
SweepEnd_Inverted(s, e) == IF e > s THEN TRUE ELSE FALSE

\* variant: a walk that ends where it started is not taken as a sweep
SweepEnd_Ge(s, e) == IF e >= s THEN FALSE ELSE TRUE

\* line 146
SweepEnd(s, e) == IF e > s THEN FALSE ELSE TRUE

\* variant: the cursor is left where the walk started
NewCursor_Stay(s, e, k) == s

\* variant: the cursor is advanced by the record count without wrapping
NewCursor_NoWrap(s, e, k) == s + k

\* line 144: the value stored in self.next_idx
NewCursor(s, e, k) == e

\* variant: the cursor is not persisted
Advance_NoPersist ==
    /\ pc = "advance"
    /\ sweep_end' = SweepEnd(start, end)
    /\ result' = EmptyResult
    /\ strm' = 1
    /\ pc' = "for"
    /\ UNCHANGED <<datagroup, next_idx, num_samples_in_batch, start, end,
                   sample_count, num_seq, status, frame, log>>

\* lines 144-148: persist the cursor, compute sweep_end, result = {}
Advance ==
    /\ pc = "advance"
    /\ next_idx' = NewCursor(start, end, num_seq)
    /\ sweep_end' = SweepEnd(start, end)
    /\ result' = EmptyResult
    /\ strm' = 1
    /\ pc' = "for"
    /\ UNCHANGED <<datagroup, num_samples_in_batch, start, end, sample_count,
                   num_seq, status, frame, log>>

\* variant: the end of the contiguous slice is taken inclusive
Extract_Inclusive(s, e, sweep) ==
    IF sweep THEN Slice(s, num_data_points) \o Slice(0, e) ELSE Slice(s, e + 1)

\* lines 153-157: record indexes read for every dataset
Extract(s, e, sweep) ==
    IF sweep THEN Slice(s, num_data_points) \o Slice(0, e) ELSE Slice(s, e)

\* np.reshape(seq, [seq_len] + elm_shape) succeeds only when the sizes agree
Reshapable(dataset, idx) ==
    (dataset.blocks[idx + 1] \div dataset.elm_size) * dataset.elm_size
        = dataset.blocks[idx + 1]

\* variant: the first record of data is left out of the count
RECURSIVE SeqSamples_SkipFirst(_, _, _)
SeqSamples_SkipFirst(dataset, data, k) ==
    IF k <= 1 THEN 0
    ELSE SeqSamples_SkipFirst(dataset, data, k - 1) + sample_count_(dataset, data[k])

\* lines 168-176: sample_count after the first k records of data
RECURSIVE SeqSamples(_, _, _)
SeqSamples(dataset, data, k) ==
    IF k = 0 THEN 0
    ELSE SeqSamples(dataset, data, k - 1) + sample_count_(dataset, data[k])

\* position in data of the first record np.reshape rejects, 0 if none
FirstBad(dataset, data) ==
    IF \E k \in 1..Len(data) : ~Reshapable(dataset, data[k])
    THEN CHOOSE k \in 1..Len(data) :
            /\ ~Reshapable(dataset, data[k])
            /\ \A j \in 1..(k - 1) : Reshapable(dataset, data[j])
    ELSE 0

\* MinibatchData(data, num_seq, sample_count, sweep_end); data is kept as the
\* records it was built from, each with the sequence length it was reshaped to
BatchData(dataset, data, cnt) ==
    [data |-> [k \in 1..Len(data) |->
                  [idx |-> data[k], seq_len |-> sample_count_(dataset, data[k])]],
     num_seq |-> num_seq,
     sample_count |-> cnt,
     sweep_end |-> sweep_end]

\* variant: the dict is started afresh for every dataset
PutResult_Reset(res, nm, d) == [x \in {nm} |-> d]

\* line 186: result[strm_info] = batch_data
PutResult(res, nm, d) == [x \in DOMAIN res \cup {nm} |-> IF x = nm THEN d ELSE res[x]]

\* one pass of the for loop of lines 149-186 over dataset number strm
AssembleStep ==
    /\ pc = "for"
    /\ strm <= Len(datagroup)
    /\ LET dataset == datagroup[strm]
           data == Extract(start, end, sweep_end)
           bad == FirstBad(dataset, data)
       IN IF dataset.is_seq /\ bad # 0
          THEN \* np.reshape raises: the call is aborted
               /\ sample_count' = SeqSamples(dataset, data, bad - 1)
               /\ status' = "raised"
               /\ result' = EmptyResult
               /\ pc' = "idle"
               /\ strm' = strm
          ELSE /\ sample_count' = IF dataset.is_seq
                                  THEN SeqSamples(dataset, data, Len(data))
                                  ELSE num_seq
               /\ result' = PutResult(result, dataset.name,
                                       BatchData(dataset, data, sample_count'))
               /\ strm' = strm + 1
               /\ UNCHANGED <<status, pc>>
    /\ UNCHANGED <<datagroup, next_idx, num_samples_in_batch, start, end,
                   num_seq, sweep_end, frame>>

AssembleStream == AssembleStep /\ UNCHANGED log

\* line 187
ReturnStep ==
    /\ pc = "for"
    /\ strm > Len(datagroup)
    /\ status' = "returned"
    /\ pc' = "idle"
    /\ UNCHANGED <<datagroup, next_idx, num_samples_in_batch, start, end,
                   sample_count, num_seq, sweep_end, strm, result, frame>>

Return == ReturnStep /\ UNCHANGED log

\* variant: the caller is handed the dict itself and empties it
StreamInfos_Consume ==
    /\ pc = "idle"
    /\ infos' = {stream_info_mapping[nm] : nm \in DOMAIN stream_info_mapping}
    /\ stream_info_mapping' = EmptyResult
    /\ UNCHANGED <<datagroup, next_idx, pc, num_samples_in_batch, start, end,
                   sample_count, num_seq, sweep_end, strm, result, status,
                   attrs, number_of_workers, worker_rank, log>>

\* stream_infos(): lines 103-104
StreamInfos ==
    /\ pc = "idle"
    /\ infos' = {stream_info_mapping[nm] : nm \in DOMAIN stream_info_mapping}
    /\ UNCHANGED <<datagroup, next_idx, pc, num_samples_in_batch, start, end,
                   sample_count, num_seq, sweep_end, strm, result, status,
                   attrs, stream_info_mapping, number_of_workers, worker_rank, log>>

Next ==
    \/ \E n \in MinSamples..MaxSamples : Call(n)
    \/ LoopStep
    \/ LoopExit
    \/ Advance
    \/ AssembleStream
    \/ Return
    \/ StreamInfos

Spec == Init /\ [][Next]_vars

\* calls with any worker arguments, on fewer data groups
InitWorkers == Init /\ datagroup \in FewDatagroups

NextWorkers ==
    \/ \E n \in MinSamples..MaxSamples :
          \E workers \in 1..MaxWorkers :
             \E rank \in 0..(workers - 1) : CallWith(n, workers, rank)
    \/ LoopStep
    \/ LoopExit
    \/ Advance
    \/ AssembleStream
    \/ Return

SpecWorkers == InitWorkers /\ [][NextWorkers]_vars

\* ---- the calls of one instance, with their history ------------------------
\* the log after a call that raised
LogRaised ==
    [log EXCEPT !.calls = @ + 1,
                !.failed = TRUE,
                !.overlong = @ \/ num_seq > num_data_points,
                !.nonpositive = @ \/ num_samples_in_batch < 1]

\* the log after a call that returned res: records handed out, batches
\* flagged sweep_end
LogReturned(res) ==
    [log EXCEPT !.calls = @ + 1,
                !.delivered = @ + Len(res[datagroup[1].name].data),
                !.sweeps = @ + (IF res[datagroup[1].name].sweep_end THEN 1 ELSE 0),
                !.overlong = @ \/ num_seq > num_data_points,
                !.nonpositive = @ \/ num_samples_in_batch < 1]

InitHistory == Init /\ datagroup \in FewDatagroups

CallLogged(n) == log.calls < MaxCalls /\ Call(n)

AssembleStreamLogged ==
    /\ AssembleStep
    /\ log' = IF status' = "raised" THEN LogRaised ELSE log

ReturnLogged == ReturnStep /\ log' = LogReturned(result)

NextHistory ==
    \/ \E n \in MinSamples..MaxSamples : CallLogged(n)
    \/ LoopStep
    \/ LoopExit
    \/ Advance
    \/ AssembleStreamLogged
    \/ ReturnLogged

SpecHistory == InitHistory /\ [][NextHistory]_vars

\* a call that has been entered keeps running: the code is single-threaded
\* and synchronous, only the caller decides whether another call is made
FairSpec ==
    /\ Spec
    /\ WF_vars(LoopStep)
    /\ WF_vars(LoopExit)
    /\ WF_vars(Advance)
    /\ WF_vars(AssembleStream)
    /\ WF_vars(Return)

\* ---- vocabulary of the properties ----------------------------------------
\* a call has run to its return statement and nothing has been called since
Returned == pc = "idle" /\ status = "returned"

\* a call was aborted by an exception and nothing has been called since
Raised == pc = "idle" /\ status = "raised"

\* the selection loop of the running call has just ended
Selected == pc = "advance"

StreamNames == {datagroup[i].name : i \in 1..Len(datagroup)}

\* record indexes held by the batch of stream nm, in order
Idxs(nm) == [k \in 1..Len(result[nm].data) |-> result[nm].data[k].idx]

\* the k records of the cyclic walk that starts at record s
CyclicWalk(s, k) == [j \in 1..k |-> (s + j - 1) % num_data_points]

\* contribution of record idx: the largest sample count any dataset gives it
SetMax(S) == CHOOSE x \in S : \A y \in S : y <= x
Contribution(idx) ==
    SetMax({0} \cup {sample_count_(datagroup[i], idx) : i \in 1..Len(datagroup)})
MaxContribution == SetMax({Contribution(idx) : idx \in 0..(num_data_points - 1)})

\* the record the selection loop took last
LastSelected == (end + num_data_points - 1) % num_data_points

\* largest sample_count_in_batch over the batches of the result
MaxBatchSamples == SetMax({result[nm].sample_count : nm \in DOMAIN result})

\* one dataset gives every record its contribution
HasDominantStream ==
    \E i \in 1..Len(datagroup) :
        \A idx \in 0..(num_data_points - 1) :
            sample_count_(datagroup[i], idx) = Contribution(idx)

\* sum of the sequence lengths block / elm_size of the records idxs of a dataset
RECURSIVE SumSeqLens(_, _)
SumSeqLens(dataset, idxs) ==
    IF idxs = <<>> THEN 0
    ELSE (dataset.blocks[Head(idxs) + 1] \div dataset.elm_size)
            + SumSeqLens(dataset, Tail(idxs))

\* ---- C1 -------------------------------------------------------------------
\* C1 (as claimed): on the ten-record data group, next_minibatch(5) called
\* with the cursor at 8 selects records 8, 9, 0, reports sweep_end for every
\* stream and leaves the cursor at 1.
C1_Claimed ==
    (datagroup = ScenarioDatagroup /\ Returned /\ start = 8
        /\ num_samples_in_batch = 5)
    => /\ \A nm \in DOMAIN result :
             Idxs(nm) = <<8, 9, 0>> /\ result[nm].sweep_end
       /\ next_idx = 1

\* C1 (amended): on the ten-record data group, next_minibatch(5) called with
\* the cursor at 8 selects records 8 and 9 only (running totals 2, 5: the
\* total 5 already meets the request), reports sweep_end for every stream and
\* leaves the cursor at 0.
C1_Scenario ==
    /\ (datagroup = ScenarioDatagroup /\ Selected /\ start = 8
           /\ num_samples_in_batch = 5)
       => sample_count = 5 /\ num_seq = 2 /\ end = 0
    /\ (datagroup = ScenarioDatagroup /\ Returned /\ start = 8
           /\ num_samples_in_batch = 5)
       => /\ DOMAIN result = {"fixed", "seq"}
          /\ \A nm \in DOMAIN result :
                Idxs(nm) = <<8, 9>> /\ result[nm].sweep_end
                    /\ result[nm].num_seq = 2
          /\ next_idx = 0

C1_Witness ==
    datagroup = ScenarioDatagroup /\ Returned /\ start = 8
        /\ num_samples_in_batch = 5

\* ---- C2 -------------------------------------------------------------------
\* C2 (as claimed): when the selection loop of a request of at least one
\* sample ends, the accumulated total exceeds the request, and the total
\* before the last selected record did not exceed it.
C2_Claimed ==
    (Selected /\ num_samples_in_batch >= 1)
    => /\ sample_count > num_samples_in_batch
       /\ sample_count - Contribution(LastSelected) <= num_samples_in_batch

\* C2 (amended): when the selection loop of a request of at least one sample
\* ends, the accumulated total is at least the request (it may equal it), at
\* least one record was taken, and the total before the last selected record
\* was below the request.
C2_StopsAtBudget ==
    (Selected /\ num_samples_in_batch >= 1)
    => /\ sample_count >= num_samples_in_batch
       /\ num_seq >= 1
       /\ sample_count - Contribution(LastSelected) < num_samples_in_batch

\* the loop ended on a total equal to the request after several records
C2_Witness ==
    Selected /\ num_samples_in_batch >= 1 /\ num_seq >= 2
        /\ sample_count = num_samples_in_batch

\* ---- C3 -------------------------------------------------------------------
\* C3 (as claimed): for any data group and any request of more than zero
\* samples, the largest sample_count_in_batch of the result exceeds the
\* request minus the largest contribution of a record, and the batch holds at
\* least one record.
C3_Claimed ==
    (Returned /\ num_samples_in_batch > 0)
    => /\ MaxBatchSamples > num_samples_in_batch - MaxContribution
       /\ num_seq >= 1

\* C3 (amended): the same bound, for data groups in which one stream gives
\* every record its largest sample count and for requests that select at most
\* record_count records.
C3_LowerBound ==
    (Returned /\ num_samples_in_batch > 0 /\ HasDominantStream
        /\ num_seq <= num_data_points)
    => /\ MaxBatchSamples > num_samples_in_batch - MaxContribution
       /\ num_seq >= 1
       /\ \A nm \in DOMAIN result : Len(result[nm].data) >= 1

\* two streams, several records, the total overshoots the request
C3_Witness ==
    /\ Returned /\ num_samples_in_batch > 0 /\ HasDominantStream
    /\ num_seq <= num_data_points /\ num_seq >= 2
    /\ Len(datagroup) = 2
    /\ MaxBatchSamples > num_samples_in_batch

\* ---- C4 -------------------------------------------------------------------
\* C4: every call, whatever the request, selects at least one record and
\* moves the cursor to (old cursor + k) mod record_count, k >= 1 being the
\* record count reported in the batch.
C4_Progress ==
    Returned
    => /\ num_seq >= 1
       /\ next_idx = (start + num_seq) % num_data_points
       /\ \A nm \in DOMAIN result : result[nm].num_seq = num_seq

\* ---- C5 -------------------------------------------------------------------
\* C5: a request of at least one sample that selects k <= record_count
\* records from start with start + k >= record_count reports sweep_end and
\* every stream holds records[start:] followed by records[:end], with
\* end = (start + k) mod record_count: k records, in cyclic order.
C5_Wraparound ==
    (Returned /\ num_samples_in_batch >= 1 /\ num_seq <= num_data_points
        /\ start + num_seq >= num_data_points)
    => LET e == (start + num_seq) % num_data_points
       IN /\ sweep_end
          /\ next_idx = e
          /\ \A nm \in DOMAIN result :
                /\ result[nm].sweep_end
                /\ Idxs(nm) = Slice(start, num_data_points) \o Slice(0, e)
                /\ Idxs(nm) = CyclicWalk(start, num_seq)
                /\ Len(result[nm].data) = num_seq

\* the walk took every record once and ended where it started
C5_Witness ==
    /\ Returned /\ num_samples_in_batch >= 1
    /\ num_seq = num_data_points /\ num_data_points >= 2 /\ start >= 1
    /\ DOMAIN result # {}

\* ---- C6 -------------------------------------------------------------------
\* C6: a request of at least one sample that selects k records from start
\* with start + k < record_count reports sweep_end false for every stream,
\* ends at start + k, and every stream holds the contiguous slice [start, end).
C6_NoWrap ==
    (Returned /\ num_samples_in_batch >= 1
        /\ start + num_seq < num_data_points)
    => /\ ~sweep_end
       /\ end = start + num_seq
       /\ next_idx = start + num_seq
       /\ \A nm \in DOMAIN result :
             /\ ~result[nm].sweep_end
             /\ Idxs(nm) = [j \in 1..num_seq |-> start + j - 1]

C6_Witness ==
    /\ Returned /\ num_samples_in_batch >= 1
    /\ start + num_seq < num_data_points /\ start >= 1 /\ num_seq >= 2
    /\ DOMAIN result # {}

\* ---- C7 -------------------------------------------------------------------
\* C7 (as claimed): the cursor is written only as the final step; when a call
\* fails during batch assembly the cursor still holds the value it had before
\* the call.
C7_Claimed ==
    Raised => result = EmptyResult /\ next_idx = start

\* C7 (amended): the cursor is written right after selection, before
\* extraction, reshaping and packaging; when a call fails during batch
\* assembly no result is returned and the cursor holds the advanced position
\* (old cursor + records selected) mod record_count.
C7_CursorBeforeAssembly ==
    /\ pc = "for" => next_idx = end
    /\ Raised => /\ result = EmptyResult
                 /\ next_idx = end
                 /\ next_idx = (start + num_seq) % num_data_points

\* a failed call that left the cursor away from where it was
C7_Witness == Raised /\ next_idx # start

\* ---- C8 -------------------------------------------------------------------
\* C8: the cursor always lies in 0 .. record_count - 1, and it is 0 right
\* after construction.
C8_CursorRange ==
    /\ next_idx \in 0..(num_data_points - 1)
    /\ status = "constructed" => next_idx = 0

\* a call that walked to the last record and wrapped the cursor to 0
C8_Witness ==
    /\ Returned /\ start = num_data_points - 1 /\ start >= 1
    /\ num_seq = 1 /\ next_idx = 0

\* ---- C9 -------------------------------------------------------------------
\* C9: in a returned result, the sample count of a sequence stream is the sum
\* of block length / element size (an exact division) over the records held
\* for that stream, the sample count of a non-sequence stream is the number of
\* records selected, and that number is the same in every batch.
C9_SampleCounts ==
    Returned
    => \A i \in 1..Len(datagroup) :
          LET dataset == datagroup[i]
              batch == result[dataset.name]
          IN /\ batch.num_seq = num_seq
             /\ IF dataset.is_seq
                THEN /\ batch.sample_count = SumSeqLens(dataset, Idxs(dataset.name))
                     /\ \A k \in 1..Len(batch.data) :
                           batch.data[k].seq_len * dataset.elm_size
                               = dataset.blocks[batch.data[k].idx + 1]
                ELSE batch.sample_count = num_seq

\* a sequence stream with elements of two scalars next to a fixed stream
C9_Witness ==
    /\ Returned /\ Len(datagroup) = 2 /\ num_seq >= 2
    /\ datagroup[1].is_seq /\ datagroup[1].elm_size = 2
    /\ ~datagroup[2].is_seq
    /\ result[datagroup[1].name].sample_count >= 2

\* ---- C10 ------------------------------------------------------------------
\* C10: a returned result has exactly one batch per stream of the catalog;
\* all batches carry the same record count and sweep_end flag and are built
\* from the same record indexes.
C10_Alignment ==
    Returned
    => /\ DOMAIN result = StreamNames
       /\ \A a \in DOMAIN result : \A b \in DOMAIN result :
             /\ result[a].num_seq = result[b].num_seq
             /\ result[a].sweep_end = result[b].sweep_end
             /\ Idxs(a) = Idxs(b)
       /\ \A a \in DOMAIN result :
             Idxs(a) = Extract(start, end, sweep_end)

\* two streams of different kinds in a wrapped batch
C10_Witness ==
    /\ Returned /\ Len(datagroup) = 2
    /\ datagroup[1].is_seq # datagroup[2].is_seq
    /\ sweep_end /\ num_seq >= 2

\* ---- C11 ------------------------------------------------------------------
\* every variable-length block is a whole number of elements
WellFormed ==
    \A i \in 1..Len(datagroup) :
        datagroup[i].is_seq =>
            \A idx \in 0..(num_data_points - 1) : Reshapable(datagroup[i], idx)

\* C11: on a data group that satisfies the data model, every call that has
\* entered its selection loop comes to an end, by returning or by failing.
\* (Stated for data groups of two records or more, where a walk that never
\* ends goes round distinct states.)
C11_Terminates ==
    (pc = "while" /\ WellFormed /\ num_data_points >= 2) ~> (pc = "idle")

\* ---- C12 ------------------------------------------------------------------
\* records the selection loop of the call looked at
Examined == {CyclicWalk(start, num_seq)[j] : j \in 1..num_seq}

\* records the batches of the call were built from
Extracted == {Extract(start, end, sweep_end)[j] :
                 j \in 1..Len(Extract(start, end, sweep_end))}

\* C12: a call returns a result only if every sequence record it examined or
\* extracted has a block that is a whole number of elements; otherwise it
\* fails, and no floored length gets into a returned batch.
C12_ShapeError ==
    Returned
    => \A i \in 1..Len(datagroup) :
          datagroup[i].is_seq =>
             \A idx \in Examined \cup Extracted : Reshapable(datagroup[i], idx)

\* ---- C13 ------------------------------------------------------------------
\* C13: on the ten-record data group, next_minibatch(7) called with the cursor
\* at 0 walks records 0, 1, 2 with running totals 2, 5, 9, reports sweep_end
\* false, record count 3, 9 samples for "seq" and 3 for "fixed", and leaves
\* the cursor at 3.
C13_Scenario ==
    (datagroup = ScenarioDatagroup /\ start = 0 /\ num_samples_in_batch = 7)
    => /\ (pc = "while" /\ num_seq = 1) => sample_count = 2 /\ end = 1
       /\ (pc = "while" /\ num_seq = 2) => sample_count = 5 /\ end = 2
       /\ Selected => sample_count = 9 /\ num_seq = 3 /\ end = 3
       /\ Returned =>
             /\ DOMAIN result = {"fixed", "seq"}
             /\ \A nm \in DOMAIN result :
                   /\ Idxs(nm) = <<0, 1, 2>>
                   /\ ~result[nm].sweep_end
                   /\ result[nm].num_seq = 3
             /\ result["seq"].sample_count = 9
             /\ result["fixed"].sample_count = 3
             /\ next_idx = 3

C13_Witness ==
    /\ datagroup = ScenarioDatagroup /\ Returned
    /\ start = 0 /\ num_samples_in_batch = 7 /\ next_idx = 3

\* ---- C14 ------------------------------------------------------------------
\* number of records a walk from record e takes for a request of n samples,
\* when it has already taken k records worth cnt samples
RECURSIVE WalkLen(_, _, _, _)
WalkLen(e, cnt, k, n) ==
    IF cnt < n /\ k < MaxIter
    THEN IF cnt + Contribution(e) > n
         THEN k + 1
         ELSE WalkLen((e + 1) % num_data_points, cnt + Contribution(e), k + 1, n)
    ELSE k

\* C14: whatever number_of_workers and worker_rank a call is given, the walk
\* starts at the cursor and the outcome is the one fixed by the data group,
\* the cursor and the request alone: same records, record counts, sample
\* counts, sweep_end flags and new cursor.
C14_WorkersIgnored ==
    /\ pc \in {"while", "advance"} => start = next_idx
    /\ Returned =>
          LET k == WalkLen(start, 0, 0, num_samples_in_batch)
              e == (start + k) % num_data_points
              sweep == (e <= start)
          IN /\ num_seq = k
             /\ next_idx = e
             /\ \A i \in 1..Len(datagroup) :
                   LET batch == result[datagroup[i].name]
                   IN /\ batch.num_seq = k
                      /\ batch.sweep_end = sweep
                      /\ Idxs(datagroup[i].name) = Extract(start, e, sweep)
                      /\ batch.sample_count =
                            IF datagroup[i].is_seq
                            THEN SumSeqLens(datagroup[i], Extract(start, e, sweep))
                            ELSE k

\* a call of the second of two workers has returned a batch of several records
C14_Witness ==
    /\ Returned /\ number_of_workers = 2 /\ worker_rank = 1
    /\ num_seq >= 2 /\ start >= 1

\* ---- C15 ------------------------------------------------------------------
\* C15: no step of next_minibatch or stream_infos changes the datasets, their
\* attributes or the catalog (so record_count stays what it was); a
\* stream_infos call changes nothing of the instance; and what it returns is
\* always the catalog built from the data group at construction.
C15_Frame ==
    [][/\ datagroup' = datagroup
       /\ attrs' = attrs
       /\ stream_info_mapping' = stream_info_mapping
       /\ (infos' # NoInfos /\ infos' # infos) =>
             UNCHANGED <<next_idx, pc, num_samples_in_batch, start, end,
                         sample_count, num_seq, sweep_end, strm, result,
                         status>>
       /\ infos' # NoInfos =>
             infos' = {Catalog(datagroup)[nm] : nm \in StreamNames}]_vars

\* stream_infos was called after a call that wrapped round the dataset end
\* and built its batches from a tail and a head slice
C15_Witness ==
    /\ Returned /\ infos # NoInfos
    /\ sweep_end /\ start >= 1 /\ end >= 1 /\ num_seq >= 2

\* ---- C16 ------------------------------------------------------------------
\* some dataset declared a sequence lacks its shape or its dtype attribute
MissingMetadata ==
    \E i \in 1..Len(datagroup) :
        /\ datagroup[i].is_seq
        /\ ~(attrs[datagroup[i].name].shape /\ attrs[datagroup[i].name].dtype)

\* C16: construction fails, leaving no data source and no cursor, exactly when
\* some dataset declared a sequence lacks its shape or dtype attribute; the
\* dataset it fails on is a sequence, and a construction that succeeds has
\* the cursor at 0 and the whole catalog.
C16_Construction ==
    /\ status = "failed" =>
          /\ MissingMetadata
          /\ datagroup[strm].is_seq
          /\ next_idx = NoCursor
          /\ pc = "dead"
    /\ status = "constructed" =>
          /\ ~MissingMetadata
          /\ next_idx = 0
          /\ stream_info_mapping = Catalog(datagroup)

\* construction went past a fixed dataset without attributes and failed on a
\* sequence dataset that has its shape but not its dtype
C16_Witness ==
    /\ status = "failed" /\ strm = 2
    /\ ~datagroup[1].is_seq /\ ~attrs[datagroup[1].name].shape
    /\ attrs[datagroup[2].name].shape /\ ~attrs[datagroup[2].name].dtype

\* ---- C17 ------------------------------------------------------------------
\* C17: for a request of at least one sample the total T accumulated by the
\* selection loop satisfies request <= T < request + c_last, c_last being the
\* contribution of the last record taken; and when at most record_count
\* records were taken no batch reports request + c_last samples or more.
C17_BoundedOvershoot ==
    /\ (Selected /\ num_samples_in_batch >= 1)
       => /\ num_samples_in_batch <= sample_count
          /\ sample_count < num_samples_in_batch + Contribution(LastSelected)
    /\ (Returned /\ num_samples_in_batch >= 1 /\ num_seq <= num_data_points)
       => \A nm \in DOMAIN result :
             result[nm].sample_count
                 < num_samples_in_batch + Contribution(LastSelected)

\* a batch of several records whose sequence stream overshoots the request
C17_Witness ==
    /\ Returned /\ num_samples_in_batch >= 2 /\ num_seq >= 2
    /\ num_seq <= num_data_points
    /\ \E nm \in DOMAIN result : result[nm].sample_count > num_samples_in_batch

\* ---- C18 ------------------------------------------------------------------
\* the records of the batch just returned, and how many they are
BatchIdxs == Idxs(datagroup[1].name)
BatchLen == Len(result[datagroup[1].name].data)

C20_CountMatchesData ==
    Returned
    => \A nm \in DOMAIN result :
          /\ result[nm].num_seq = Len(result[nm].data)
          /\ result[nm].sweep_end <=> (start + num_seq >= num_data_points)

====
